---- MODULE Spec2Model ----
(***************************************************************************)
(* Model of backend/report_type/detailed_report/detailed_report.py:        *)
(* DetailedReport.run and the methods it calls.  A text is a sequence of   *)
(* atoms (characters or opaque tokens); the engine (GPTResearcher) is the  *)
(* environment and its answers are drawn from small sets.                  *)
(***************************************************************************)
EXTENDS Integers, Sequences, FiniteSets, TLC

\* ------------------------------------------------------------------ bounds
MaxSubtopics == 2

\* ------------------------------------------------- the engine's answers
Tasks == {"A", "B"}
UrlList == <<"u1", "u2">>
\* context lists an engine session may hold: empty, with a repeated snippet,
\* with two snippets
CtxLists == {<<>>, <<"c1", "c1">>, <<"c1", "c2">>}
\* a body write_report may return for a task: empty, or a text of its own
Bodies(task) == {<<>>, <<"body", task>>}

Range(s) == {s[i] : i \in 1..Len(s)}
Urls == Range(UrlList)
SeqsUpTo(S, n) == UNION {[1..k -> S] : k \in 0..n}
TaskLists == SeqsUpTo(Tasks, MaxSubtopics)
\* URL sets one research pass may add
Found == {{}} \cup {{u} : u \in Urls}

\* ------------------------------------------------------------ text helpers
NL == "\n"
NL2 == <<NL, NL>>
NL3 == <<NL, NL, NL>>

\* list(set(xs)): the distinct elements of xs in an order the hash decides
ListOfSet(xs) ==
  {s \in [1..Cardinality(Range(xs)) -> Range(xs)] : Range(s) = Range(xs)}

NoDuplicates(s) == \A i, j \in 1..Len(s) : s[i] = s[j] => i = j

\* ----------------------------------------------- engine's pure capabilities
extract_headers(text) ==
  IF text = <<>> THEN <<>> ELSE <<[level |-> 1, text |-> text]>>

extract_sections(text) == IF text = <<>> THEN <<>> ELSE <<text>>

table_of_contents(text) == <<"TOC[">> \o text \o <<"]">>

write_report_conclusion(text) == <<"CONCLUSION[">> \o text \o <<"]">>

add_references(text, urlset) ==
  text \o <<"REFS[">> \o SelectSeq(UrlList, LAMBDA u : u \in urlset) \o <<"]">>

write_introduction == <<"INTRO">>

\* str(x) of a draft-titles answer that is not a string
StrOf(x) == <<"str(">> \o x \o <<")">>

\* ------------------------------------------------------------------- state
VARIABLES
  self_subtopics,            \* self.subtopics, the caller's list of tasks
  attrs,                     \* ledger attributes that exist on self
  global_context,            \* self.global_context (a list)
  global_urls,               \* self.global_urls: the set object it refers to
  global_written_sections,   \* self.global_written_sections (a list)
  existing_headers,          \* self.existing_headers (a list)
  urlsets,                   \* the set objects: root's, the ledger's own, the session's
  root_context,              \* self.gpt_researcher.context
  engine_copies,             \* GPTResearcher(visited_urls=s) copies s / keeps the reference
  pc, exc, path,
  subtopics,                 \* the list _generate_subtopic_reports iterates
  idx,                       \* iterations of the for loop finished
  subtopic_assistant,        \* the session of the subtopic in flight
  subtopic_reports, subtopics_report_body,
  report_introduction, report, returned,
  engine_subtopics,          \* history: tasks in the engine's get_subtopics answer
  ran, merged,               \* history: tasks whose session was created / merged
  written,                   \* history: bodies write_report returned
  lookups,                   \* history: corpus passed to each similarity lookup
  header_args,               \* history: header list passed to each write_report
  init_urls, sess_finals,    \* history: visited set after the broad pass / union of the sessions' final sets
  calls                      \* history: engine calls of the root session

ledger == <<attrs, global_context, global_urls, global_written_sections,
            existing_headers>>
heap == <<urlsets, root_context>>
loopv == <<subtopics, idx, subtopic_reports, subtopics_report_body>>
outv == <<report_introduction, report, returned>>
histv == <<engine_subtopics, ran, merged, written, lookups, header_args,
           init_urls, sess_finals, calls>>
vars == <<self_subtopics, engine_copies, pc, exc, path, subtopic_assistant,
          ledger, heap, loopv, outv, histv>>

\* ------------------------------------------------- state of a connection
\* handle_websocket_communication (server_utils.py, lines 284-341)
VARIABLES
  handler,                   \* where the handler is: "receive" / "returned"
  running_task,              \* running_task: 0 for None, else an index of tasks
  tasks,                     \* the asyncio tasks created on this connection
  sent,                      \* frames the client was sent, in order
  handled,                   \* history: each message received and its branch
  manager_calls              \* history: manager.connect / manager.disconnect

conn == <<handler, running_task, tasks, sent, handled, manager_calls>>

\* line 285, and the handler about to await its first receive_text();
\* websocket_endpoint (server.py, line 427) has awaited manager.connect
ConnInit ==
  /\ manager_calls = <<"connect">>
  /\ handler = "receive"
  /\ running_task = 0
  /\ tasks = <<>>
  /\ sent = <<>>
  /\ handled = <<>>

\* ------------------------------------------------ state of two runs at once
\* two DetailedReport objects whose run() calls interleave at their awaits
VARIABLES
  stage,                     \* where each run is suspended
  ledgers,                   \* each object's ledger attributes
  sets,                      \* the URL set objects of both runs
  sessions,                  \* each run's subtopic session
  answers,                   \* history: the engine's answers to each run
  reports                    \* what each run() returned

pair == <<stage, ledgers, sets, sessions, answers, reports>>

Runs == {1, 2}

\* the set objects of run r: its root session's, the one a ledger assigned
\* from outside starts with, its subtopic session's
Root(r) == <<"root", r>>
Own(r) == <<"own", r>>
Sess(r) == <<"sess", r>>

\* both objects as their construction left them, before run()
PairInit ==
  /\ stage = [r \in Runs |-> "initial_research"]
  /\ ledgers = [r \in Runs |->
                  [attrs |-> attrs, global_context |-> <<>>,
                   global_urls |-> Own(r), global_written_sections |-> <<>>,
                   existing_headers |-> <<>>]]
  /\ sets = [o \in UNION {{Root(r), Own(r), Sess(r)} : r \in Runs} |-> {}]
  /\ sessions = [r \in Runs |-> [context |-> <<>>, visited_urls |-> Sess(r)]]
  /\ answers = [r \in Runs |-> <<>>]
  /\ reports = [r \in Runs |-> <<>>]

\* ----------------------------------------------- state of a start command
\* handle_start_command (server_utils.py, lines 130-200)
VARIABLES
  json_data,                 \* json.loads(data[6:])
  start_pc,                  \* where handle_start_command is
  effects                    \* history: what the command did, in order

startv == <<json_data, start_pc, effects>>

\* None, and the values of a JSON text field
NoneValue == "None"
TaskValues == {NoneValue, "", "topic"}
ReportTypes == {NoneValue, "", "research_report", "detailed_report"}
\* extract_command_data, lines 343-374: the fields the command reads;
\* well_formed is whether json.loads accepted the text
NoCommand == [well_formed |-> FALSE, task |-> NoneValue,
              report_type |-> NoneValue, language |-> NoneValue,
              doc_path |-> NoneValue]
StartCommands ==
  {NoCommand} \cup
  [well_formed : {TRUE}, task : TaskValues, report_type : ReportTypes,
   language : {NoneValue, "en"}, doc_path : {NoneValue, "tmp"}]

\* the coroutine as create_task received it, its body not yet entered
StartInit ==
  /\ json_data = NoCommand
  /\ start_pc = "created"
  /\ effects = <<>>

\* ------------------------------------------ state of the temporary folders
\* server.py lines 47-104, 187-202, 213-273, 290-398 and cleanup_temp_folders
\* (server_utils.py, lines 376-410).  Time is counted in hours.
VARIABLES
  now,                       \* time.time()
  temp_base,                 \* the directories under gpt_researcher_docs
  created,                   \* history: every folder create_temp_doc_path made
  research_runs,             \* the write_report_with_files calls
  timers,                    \* pending threading.Timer(300, ...) targets
  swept,                     \* history: folders the cleanup service removed
  last_pass                  \* history: time of the service's latest pass

temp == <<now, temp_base, created, research_runs, timers, swept, last_pass>>

\* int(time.time()) when the server starts; far above any small user id
Epoch == 10

\* the server started, no folder yet, the service has made no pass
TempInit ==
  /\ now = Epoch
  /\ temp_base = {}
  /\ created = {}
  /\ research_runs = <<>>
  /\ timers = {}
  /\ swept = {}
  /\ last_pass = 0

\* what a report run, a connection, a pair of runs, a start command, the
\* folder bookkeeping leave alone
outside == <<conn, pair, startv, temp>>
offconn == <<vars, pair, startv, temp>>
offpair == <<vars, conn, startv, temp>>
offstart == <<vars, conn, pair, temp>>
offtemp == <<vars, conn, pair, startv>>

LedgerAttrs == {"global_context", "global_urls", "global_written_sections",
                "existing_headers"}

NoSession == [task |-> "", context |-> <<>>, visited_urls |-> "root",
              titles |-> <<>>, relevant |-> <<>>, report |-> <<>>]

\* self.global_urls, dereferenced
GlobalUrls == urlsets[global_urls]

\* ------------------------------------------------------------------- Init
\* DetailedReport.__init__ (lines 29-77) assigns none of the four ledger
\* attributes: attrs = {} is the object as the constructor returns it.  The
\* class assigns global_context and global_urls only in _initial_research and
\* never assigns global_written_sections or existing_headers, which lines 178
\* and 181 read; reading a missing attribute raises AttributeError.  Lines
\* 181-192 therefore execute only on an object whose attributes were assigned
\* from outside the class before run(); attrs = LedgerAttrs is that object,
\* with four empty containers.  Every formula below is checked from both.
Init ==
  /\ self_subtopics \in TaskLists
  /\ attrs \in {{}, LedgerAttrs}
  /\ engine_copies \in BOOLEAN
  /\ global_context = <<>>
  /\ global_urls = "own"
  /\ global_written_sections = <<>>
  /\ existing_headers = <<>>
  /\ urlsets = [o \in {"root", "own", "sess"} |-> {}]
  /\ root_context = <<>>
  /\ pc = "start" /\ exc = "none" /\ path = "none"
  /\ subtopics = <<>> /\ idx = 0
  /\ subtopic_assistant = NoSession
  /\ subtopic_reports = <<>> /\ subtopics_report_body = <<>>
  /\ report_introduction = <<>> /\ report = <<>> /\ returned = "none"
  /\ engine_subtopics = <<>> /\ ran = <<>> /\ merged = <<>> /\ written = <<>>
  /\ lookups = <<>> /\ header_args = <<>>
  /\ init_urls = {} /\ sess_finals = {} /\ calls = <<>>
  /\ ConnInit
  /\ PairInit
  /\ StartInit
  /\ TempInit

\* an exception that is swallowed: the run returns normally
Raise_Swallow(e) == pc' = "done" /\ exc' = e

\* an exception that only ends the loop: the run goes on to assemble
Raise_EndLoop(e) == pc' = "merge_urls" /\ exc' = e

\* an exception leaves run(): nothing in lines 100-192 catches one
Raise(e) == pc' = "raised" /\ exc' = e

\* ------------------------------------------------------------------- run
\* a bypass test that never takes the bypass
SubtopicsProvided_Never == FALSE

\* run(), line 105: self.subtopics and len(self.subtopics) > 0
SubtopicsProvided == Len(self_subtopics) > 0

\* run(), lines 105-109: the bypass test
Start ==
  /\ pc = "start"
  /\ IF SubtopicsProvided
       THEN /\ path' = "bypass"
            /\ subtopics' = self_subtopics
            /\ pc' = "loop"
       ELSE /\ path' = "planned"
            /\ subtopics' = subtopics
            /\ pc' = "initial_research"
  /\ idx' = 0 /\ subtopic_reports' = <<>> /\ subtopics_report_body' = <<>>
  /\ UNCHANGED <<outside, self_subtopics, engine_copies, exc, subtopic_assistant,
                 ledger, heap, outv, histv>>

\* _initial_research, lines 117-120
InitialResearch ==
  /\ pc = "initial_research"
  /\ \E ctx \in CtxLists, found \in Found :
       /\ root_context' = ctx
       /\ urlsets' = [urlsets EXCEPT !["root"] = @ \cup found]
       /\ global_context' = ctx
       /\ init_urls' = urlsets["root"] \cup found
  /\ global_urls' = "root"
  /\ attrs' = attrs \cup {"global_context", "global_urls"}
  /\ calls' = Append(calls, "conduct_research")
  /\ pc' = "plan"
  /\ UNCHANGED <<outside, self_subtopics, engine_copies, exc, path, subtopic_assistant,
                 global_written_sections, existing_headers, loopv, outv,
                 engine_subtopics, ran, merged, written, lookups, header_args,
                 sess_finals>>

\* a planner that falls back to one subtopic when the engine lists none
AllSubtopics_Fallback(data) == IF data = <<>> THEN <<"A">> ELSE data

\* the list _get_all_subtopics builds from a usable answer, lines 125-128
AllSubtopics(data) == [i \in 1..Len(data) |-> data[i]]

\* _get_all_subtopics, lines 122-132.  The engine answers None ("none"), an
\* object with a subtopics list ("data"), or a truthy value without a
\* subtopics attribute ("malformed").
GetAllSubtopics ==
  /\ pc = "plan"
  /\ calls' = Append(calls, "get_subtopics")
  /\ \E kind \in {"none", "data", "malformed"}, data \in TaskLists :
       /\ kind # "data" => data = <<>>
       /\ engine_subtopics' = data
       /\ IF kind = "malformed"
            THEN /\ Raise("AttributeError")
                 /\ subtopics' = subtopics
            ELSE /\ subtopics' = AllSubtopics(data)
                 /\ pc' = "intro"
                 /\ exc' = exc
  /\ UNCHANGED <<outside, self_subtopics, engine_copies, path, subtopic_assistant,
                 ledger, heap, idx, subtopic_reports, subtopics_report_body,
                 outv, ran, merged, written, lookups, header_args, init_urls,
                 sess_finals>>

\* run(), line 111
WriteIntroduction ==
  /\ pc = "intro"
  /\ report_introduction' = write_introduction
  /\ calls' = Append(calls, "write_introduction")
  /\ pc' = "loop"
  /\ UNCHANGED <<outside, self_subtopics, engine_copies, exc, path, subtopic_assistant,
                 ledger, heap, loopv, report, returned, engine_subtopics, ran,
                 merged, written, lookups, header_args, init_urls, sess_finals>>

\* --------------------------------------------------- _get_subtopic_report
\* a loop that starts the next run without awaiting the one in flight
LoopReady_NoAwait == pc \in {"loop", "merge"} /\ idx < Len(subtopics)

\* the for loop may start its next iteration, lines 138-139
LoopReady == pc = "loop" /\ idx < Len(subtopics)

\* lines 147-165: the session is created and seeded
CreateSession ==
  /\ LoopReady
  /\ IF "global_urls" \notin attrs \/ "global_context" \notin attrs
       THEN /\ Raise("AttributeError")
            /\ UNCHANGED <<subtopic_assistant, urlsets, ran>>
       ELSE /\ \E seeded \in ListOfSet(global_context) :
                 subtopic_assistant' =
                   [NoSession EXCEPT
                      !.task = subtopics[idx + 1],
                      !.context = seeded,
                      !.visited_urls =
                         IF engine_copies THEN "sess" ELSE global_urls]
            /\ urlsets' = IF engine_copies
                            THEN [urlsets EXCEPT !["sess"] = GlobalUrls]
                            ELSE urlsets
            /\ ran' = Append(ran, subtopics[idx + 1])
            /\ pc' = "research"
            /\ exc' = exc
  /\ UNCHANGED <<outside, self_subtopics, engine_copies, path, ledger, root_context,
                 loopv, outv, engine_subtopics, merged, written, lookups,
                 header_args, init_urls, sess_finals, calls>>

\* line 166: the session's research pass
SubtopicResearch ==
  /\ pc = "research"
  /\ \E ctx \in CtxLists, found \in Found :
       /\ subtopic_assistant' = [subtopic_assistant EXCEPT !.context = ctx]
       /\ urlsets' = [urlsets EXCEPT ![subtopic_assistant.visited_urls] =
                                        @ \cup found]
  /\ pc' = "titles"
  /\ UNCHANGED <<outside, self_subtopics, engine_copies, exc, path, ledger,
                 root_context, loopv, outv, histv>>

\* lines 168-175: draft titles, coerced to a string, and their header texts
DraftSectionTitles ==
  /\ pc = "titles"
  /\ \E is_str \in BOOLEAN :
       LET draft == IF is_str THEN <<"t">> ELSE StrOf(<<"t">>)
           parsed == extract_headers(draft)
       IN subtopic_assistant' =
            [subtopic_assistant EXCEPT
               !.titles = [i \in 1..Len(parsed) |-> parsed[i].text]]
  /\ pc' = "lookup"
  /\ UNCHANGED <<outside, self_subtopics, engine_copies, exc, path, ledger, heap,
                 loopv, outv, histv>>

\* lines 177-179: the duplicate-avoidance lookup
SimilarWrittenContents ==
  /\ pc = "lookup"
  /\ IF "global_written_sections" \notin attrs
       THEN /\ Raise("AttributeError")
            /\ UNCHANGED <<subtopic_assistant, lookups>>
       ELSE /\ lookups' = Append(lookups, global_written_sections)
            /\ subtopic_assistant' =
                 [subtopic_assistant EXCEPT !.relevant = global_written_sections]
            /\ pc' = "write"
            /\ exc' = exc
  /\ UNCHANGED <<outside, self_subtopics, engine_copies, path, ledger, heap, loopv,
                 outv, engine_subtopics, ran, merged, written, header_args,
                 init_urls, sess_finals, calls>>

\* line 181
WriteReport ==
  /\ pc = "write"
  /\ IF "existing_headers" \notin attrs
       THEN /\ Raise("AttributeError")
            /\ UNCHANGED <<subtopic_assistant, written, header_args>>
       ELSE /\ \E text \in Bodies(subtopic_assistant.task) :
                 /\ subtopic_assistant' =
                      [subtopic_assistant EXCEPT !.report = text]
                 /\ written' = Append(written, text)
            /\ header_args' = Append(header_args, existing_headers)
            /\ pc' = "merge"
            /\ exc' = exc
  /\ UNCHANGED <<outside, self_subtopics, engine_copies, path, ledger, heap, loopv,
                 outv, engine_subtopics, ran, merged, lookups, init_urls,
                 sess_finals, calls>>

\* a merge that forgets to extend the written sections
MergeSections_Skip(sections, text) == sections

\* line 183
MergeSections(sections, text) == sections \o extract_sections(text)

\* a merge that leaves the ledger's context alone
MergeContext_Keep(ledger_context, session_context) == {ledger_context}

\* line 184
MergeContext(ledger_context, session_context) == ListOfSet(session_context)

\* a merge that leaves the ledger's URL set alone
MergeUrls_Skip(ledger_urls, session_urls) == ledger_urls

\* a merge that keeps only the URLs the ledger did not have
MergeUrls_OnlyNew(ledger_urls, session_urls) == session_urls \ ledger_urls

\* line 185
MergeUrls(ledger_urls, session_urls) == ledger_urls \cup session_urls

\* a merge that puts the newest header entry first
MergeHeaders_Prepend(headers, task, text) ==
  <<[subtopic_task |-> task, headers |-> extract_headers(text)]>> \o headers

\* lines 187-190
MergeHeaders(headers, task, text) ==
  Append(headers, [subtopic_task |-> task, headers |-> extract_headers(text)])

\* an accumulation that puts the newest body first
AppendBody_Prepend(body, text) ==
  IF text # <<>> THEN NL3 \o text \o body ELSE body

\* an accumulation with a two-newline separator
AppendBody_TwoNewlines(body, text) ==
  IF text # <<>> THEN body \o NL2 \o text ELSE body

\* lines 140-142: the loop's accumulation of one result
AppendBody(body, text) == IF text # <<>> THEN body \o NL3 \o text ELSE body

\* lines 183-192 and 140-142: the ledger updates and the loop's bookkeeping
MergeAndCollect ==
  /\ pc = "merge"
  /\ LET a == subtopic_assistant
         result == [topic |-> a.task, report |-> a.report]
     IN /\ global_written_sections' =
             MergeSections(global_written_sections, a.report)
        /\ global_context' \in MergeContext(global_context, a.context)
        /\ urlsets' = [urlsets EXCEPT ![global_urls] =
                         MergeUrls(@, urlsets[a.visited_urls])]
        /\ existing_headers' = MergeHeaders(existing_headers, a.task, a.report)
        /\ sess_finals' = sess_finals \cup urlsets[a.visited_urls]
        /\ merged' = Append(merged, a.task)
        /\ subtopic_reports' = IF a.report # <<>>
                                 THEN Append(subtopic_reports, result)
                                 ELSE subtopic_reports
        /\ subtopics_report_body' = AppendBody(subtopics_report_body, a.report)
  /\ subtopic_assistant' = NoSession
  /\ idx' = idx + 1
  /\ pc' = "loop"
  /\ UNCHANGED <<outside, self_subtopics, engine_copies, exc, path,
                 attrs, global_urls, root_context, subtopics, outv,
                 engine_subtopics, ran, written, lookups, header_args,
                 init_urls, calls>>

\* a run that assembles right after the loop, without line 113
LoopExit_SkipMerge ==
  /\ pc = "loop" /\ idx = Len(subtopics)
  /\ IF path = "bypass"
       THEN pc' = "done" /\ returned' = "tuple"
       ELSE pc' = "assemble" /\ returned' = returned
  /\ UNCHANGED <<outside, self_subtopics, engine_copies, exc, path, subtopic_assistant,
                 ledger, heap, loopv, report_introduction, report, histv>>

\* line 144, then line 107 (bypass) or line 112 (planned)
LoopExit ==
  /\ pc = "loop" /\ idx = Len(subtopics)
  /\ IF path = "bypass"
       THEN pc' = "done" /\ returned' = "tuple"
       ELSE pc' = "merge_urls" /\ returned' = returned
  /\ UNCHANGED <<outside, self_subtopics, engine_copies, exc, path, subtopic_assistant,
                 ledger, heap, loopv, report_introduction, report, histv>>

\* run(), line 113
MergeVisitedUrls ==
  /\ pc = "merge_urls"
  /\ urlsets' = [urlsets EXCEPT !["root"] = @ \cup GlobalUrls]
  /\ pc' = "assemble"
  /\ UNCHANGED <<outside, self_subtopics, engine_copies, exc, path, subtopic_assistant,
                 ledger, root_context, loopv, outv, histv>>

\* an assembly that puts the body before the table of contents
ConstructDetailedReport_BodyFirst(introduction, report_body, visited) ==
  introduction \o NL2 \o report_body \o NL2 \o table_of_contents(report_body)
    \o NL2 \o add_references(write_report_conclusion(report_body), visited)

\* _construct_detailed_report, lines 195-199
ConstructDetailedReport(introduction, report_body, visited) ==
  LET toc == table_of_contents(report_body)
      conclusion == write_report_conclusion(report_body)
      conclusion_with_references == add_references(conclusion, visited)
  IN introduction \o NL2 \o toc \o NL2 \o report_body \o NL2
       \o conclusion_with_references

\* references built from the set the broad pass left
ReferenceUrls_Stale == init_urls

\* line 198: self.gpt_researcher.visited_urls
ReferenceUrls == urlsets["root"]

\* an assembler that empties the ledger's lists once it has read them
Assemble_ClearsLedger ==
  /\ pc = "assemble"
  /\ report' = ConstructDetailedReport(report_introduction,
                                       subtopics_report_body, ReferenceUrls)
  /\ calls' = Append(calls, "write_report_conclusion")
  /\ returned' = "report"
  /\ pc' = "done"
  /\ global_context' = <<>>
  /\ UNCHANGED <<outside, self_subtopics, engine_copies, exc, path, subtopic_assistant,
                 attrs, global_urls, global_written_sections, existing_headers,
                 heap, loopv, report_introduction, engine_subtopics,
                 ran, merged, written, lookups, header_args, init_urls,
                 sess_finals>>

\* run(), lines 114-115
Assemble ==
  /\ pc = "assemble"
  /\ report' = ConstructDetailedReport(report_introduction,
                                       subtopics_report_body, ReferenceUrls)
  /\ calls' = Append(calls, "write_report_conclusion")
  /\ returned' = "report"
  /\ pc' = "done"
  /\ UNCHANGED <<outside, self_subtopics, engine_copies, exc, path, subtopic_assistant,
                 ledger, heap, loopv, report_introduction, engine_subtopics,
                 ran, merged, written, lookups, header_args, init_urls,
                 sess_finals>>

\* the awaited engine call at each position, and whether the root session
\* (self.gpt_researcher) or the subtopic session makes it
EngineCall ==
  [initial_research |-> "conduct_research", plan |-> "get_subtopics",
   intro |-> "write_introduction", research |-> "conduct_research",
   titles |-> "get_draft_section_titles",
   lookup |-> "get_similar_written_contents_by_draft_section_titles",
   write |-> "write_report", assemble |-> "write_report_conclusion"]

RootCallPcs == {"initial_research", "plan", "intro", "assemble"}

\* an awaited engine call raises (lines 118, 123, 111, 166, 168, 177, 181,
\* 196); the arguments of the call are evaluated first
EngineFailure ==
  /\ pc \in DOMAIN EngineCall
  /\ pc = "lookup" => "global_written_sections" \in attrs
  /\ pc = "write" => "existing_headers" \in attrs
  /\ Raise("EngineError")
  /\ calls' = IF pc \in RootCallPcs THEN Append(calls, EngineCall[pc])
              ELSE calls
  /\ UNCHANGED <<outside, self_subtopics, engine_copies, path, subtopic_assistant,
                 ledger, heap, loopv, outv, engine_subtopics, ran, merged,
                 written, lookups, header_args, init_urls, sess_finals>>

\* run() is suspended in an awaited call whose arguments were evaluated
AtSuspensionPoint ==
  /\ pc \in DOMAIN EngineCall
  /\ pc = "lookup" => "global_written_sections" \in attrs
  /\ pc = "write" => "existing_headers" \in attrs

\* a cancellation handled by throwing the ledger's lists away
Cancel_Rollback ==
  /\ AtSuspensionPoint
  /\ Raise("CancelledError")
  /\ calls' = IF pc \in RootCallPcs THEN Append(calls, EngineCall[pc])
              ELSE calls
  /\ global_written_sections' = <<>>
  /\ existing_headers' = <<>>
  /\ UNCHANGED <<outside, self_subtopics, engine_copies, path, subtopic_assistant,
                 attrs, global_context, global_urls, heap, loopv, outv,
                 engine_subtopics, ran, merged, written, lookups, header_args,
                 init_urls, sess_finals>>

\* the task running run() is cancelled (server_utils.py, lines 339-341):
\* CancelledError is raised at the await where run() is suspended, and lines
\* 100-192 have no except or finally clause that would run
Cancel ==
  /\ AtSuspensionPoint
  /\ Raise("CancelledError")
  /\ calls' = IF pc \in RootCallPcs THEN Append(calls, EngineCall[pc])
              ELSE calls
  /\ UNCHANGED <<outside, self_subtopics, engine_copies, path, subtopic_assistant,
                 ledger, heap, loopv, outv, engine_subtopics, ran, merged,
                 written, lookups, header_args, init_urls, sess_finals>>

Next ==
  \/ Start
  \/ InitialResearch
  \/ GetAllSubtopics
  \/ WriteIntroduction
  \/ CreateSession
  \/ SubtopicResearch
  \/ DraftSectionTitles
  \/ SimilarWrittenContents
  \/ WriteReport
  \/ MergeAndCollect
  \/ LoopExit
  \/ MergeVisitedUrls
  \/ Assemble
  \/ EngineFailure
  \/ Cancel

Spec == Init /\ [][Next]_vars

\* ================================================================ claims
NonEmptyTexts(texts) == SelectSeq(texts, LAMBDA t : t # <<>>)

\* the bodies of the subtopic runs whose ledger merge is done
MergedBodies == SubSeq(written, 1, Len(merged))

\* positions where a run of non-newline atoms starts, in increasing order
PieceStarts(b) ==
  LET starts == {i \in 1..Len(b) : b[i] # NL /\ (i = 1 \/ b[i - 1] = NL)}
  IN CHOOSE f \in [1..Cardinality(starts) -> starts] :
       \A i, j \in 1..Cardinality(starts) : i < j => f[i] < f[j]

PieceEnd(b, i) ==
  CHOOSE j \in i..Len(b) :
    /\ \A k \in i..j : b[k] # NL
    /\ j = Len(b) \/ b[j + 1] = NL

\* the maximal newline-free pieces of a text, in order
Pieces(b) ==
  [n \in 1..Len(PieceStarts(b)) |->
     SubSeq(b, PieceStarts(b)[n], PieceEnd(b, PieceStarts(b)[n]))]

\* the number of newlines right before position i
NewlinesBefore(b, i) ==
  LET last == {j \in 1..(i - 1) : b[j] # NL}
  IN IF last = {} THEN i - 1
     ELSE i - 1 - (CHOOSE j \in last : \A k \in last : k <= j)

\* the lengths of the newline runs between consecutive pieces
InteriorGaps(b) ==
  {NewlinesBefore(b, PieceStarts(b)[n]) : n \in 2..Len(PieceStarts(b))}

IsPrefix(s, t) == Len(s) <= Len(t) /\ SubSeq(t, 1, Len(s)) = s

LoopFinished == pc \in {"merge_urls", "assemble", "done"}

InFlight == pc \in {"research", "titles", "lookup", "write", "merge"}

C5_NoDuplicateContext ==
  "global_context" \in attrs => NoDuplicates(global_context)

C10_BypassCompletes ==
  path = "bypass" =>
    /\ exc # "AttributeError"
    /\ pc = "done" =>
         /\ Len(merged) = Len(self_subtopics)
         /\ Len(existing_headers) = Len(merged)
         /\ GlobalUrls = sess_finals

Count(seq, x) == Cardinality({i \in 1..Len(seq) : seq[i] = x})

Last(seq) == seq[Len(seq)]

PlannerYieldedNone ==
  /\ path = "planned"
  /\ Count(calls, "get_subtopics") = 1
  /\ engine_subtopics = <<>>
  /\ ~(Last(calls) = "get_subtopics" /\ pc = "raised")

\* C13: when the planner yields zero subtopics no session is created, the body
\* stays empty, nothing but an engine failure or a cancellation stops the run, and the report
\* returned is introduction, table of contents of the empty body, the empty
\* body and the conclusion with references.
C13_ZeroSubtopics ==
  PlannerYieldedNone =>
    /\ ran = <<>>
    /\ subtopics_report_body = <<>>
    /\ exc # "AttributeError"
    /\ pc = "raised" => exc \in {"EngineError", "CancelledError"}
    /\ pc = "done" =>
         /\ returned = "report"
         /\ report = write_introduction \o <<NL, NL>>
                       \o table_of_contents(<<>>) \o <<NL, NL, NL, NL>>
                       \o add_references(write_report_conclusion(<<>>),
                                         init_urls)

C13_Witness == PlannerYieldedNone /\ pc = "done" /\ init_urls # {}

\* C14 (as claimed): when get_subtopics answers with a null, empty or
\* malformed result, the planner returns an empty sequence and raises nothing.
C14_PlannerDegrades ==
  (Len(calls) > 0 /\ Last(calls) = "get_subtopics" /\ engine_subtopics = <<>>
     /\ exc \notin {"EngineError", "CancelledError"}) =>
    (pc = "intro" /\ subtopics = <<>> /\ exc = "none")

StageIx ==
  [start |-> 1, initial_research |-> 2, plan |-> 3, intro |-> 4, loop |-> 5,
   research |-> 5, titles |-> 5, lookup |-> 5, write |-> 5, merge |-> 5,
   merge_urls |-> 6, assemble |-> 7, done |-> 8, raised |-> 0]

C17_EarlyFailureIsFatal ==
  (exc = "EngineError" /\ Len(calls) > 0
     /\ Last(calls) \in {"conduct_research", "get_subtopics"}) =>
    /\ pc = "raised"
    /\ returned = "none" /\ report = <<>> /\ report_introduction = <<>>
    /\ ran = <<>>
    /\ Count(calls, "write_introduction") = 0

C17_Witness ==
  exc = "EngineError" /\ pc = "raised" /\ Len(calls) = 2
    /\ Last(calls) = "get_subtopics"

C19_LedgerCreatedEmpty ==
  /\ pc = "start" =>
       /\ attrs = LedgerAttrs
       /\ global_context = <<>> /\ global_written_sections = <<>>
       /\ existing_headers = <<>> /\ GlobalUrls = {}
  /\ Len(ran) > 0 => exc # "AttributeError"

NormalizeTask(task) == CASE task = "A" -> "a" [] task = "B" -> "b"

\* C22 (as claimed): the planner's subtopic sequence holds no two subtopics
\* whose normalized task texts are equal.
C22_PlannerDeduplicates ==
  path = "planned" =>
    \A i, j \in 1..Len(subtopics) :
      NormalizeTask(subtopics[i]) = NormalizeTask(subtopics[j]) => i = j

\* C24 (as claimed): the session works on a snapshot of the visited URLs, so
\* its research pass changes neither the ledger's set nor the root session's.
C24_SessionSnapshot ==
  [][(pc = "research" /\ pc' = "titles") =>
       /\ GlobalUrls' = GlobalUrls
       /\ urlsets'["root"] = urlsets["root"]]_vars

MaxMessages == 3

Ping == <<"ping">>

Messages == {Ping, <<"ping", "{}">>, <<"start", "{}">>,
             <<"human_feedback", "{}">>, <<"chat", "{}">>, <<"stop">>}

\* str.startswith
StartsWith(data, prefix) == Len(data) >= 1 /\ data[1] = prefix

\* asyncio.Task.done(): finished, failed or cancelled, not merely asked to
TaskDone(t) == t.state \in {"done", "cancelled"}

\* a busy test that never finds the connection busy
Busy_Never == FALSE

\* line 313: running_task and not running_task.done()
Busy == running_task # 0 /\ ~TaskDone(tasks[running_task])

\* the if/elif chain of lines 311-335, in its order
Branch(data) ==
  IF data = Ping THEN "ping"
  ELSE IF Busy THEN "busy"
  ELSE IF StartsWith(data, "start") THEN "start"
  ELSE IF StartsWith(data, "human_feedback") THEN "human_feedback"
  ELSE IF StartsWith(data, "chat") THEN "chat"
  ELSE "unknown"

\* line 309: await websocket.receive_text() returns data
Receive(data) ==
  /\ handler = "receive"
  /\ Len(handled) < MaxMessages
  /\ handled' = Append(handled, [data |-> data, branch |-> Branch(data)])

\* await websocket.send_text / send_json: the frame goes to the client
Send(frames, frame) == Append(frames, frame)

\* lines 318-323: websocket.send_json(...) is called without await; the call
\* only builds a coroutine object, which never runs, so no frame is sent
SendNotAwaited(frames, frame) == frames

BusyNotice == [types |-> "logs", output |-> "Task already running. Please wait."]

ErrorNotice == [type |-> "logs", content |-> "error", output |-> "Error"]

\* a finally clause that leaves the running task alone
CancelRunning_Skip == tasks

\* lines 339-341: the finally clause
CancelRunning ==
  IF Busy THEN [tasks EXCEPT ![running_task].state = "cancelling"] ELSE tasks

\* lines 336-341: an exception ends the loop, the handler returns
Break ==
  /\ handler' = "returned"
  /\ tasks' = CancelRunning
  /\ UNCHANGED running_task

\* lines 287-304: safe_run() is wrapped in a task by asyncio.create_task
RunLongRunningTask(command) ==
  /\ tasks' = Append(tasks, [command |-> command, state |-> "running",
                             raised |-> FALSE])
  /\ running_task' = Len(tasks) + 1

\* lines 311-312: "ping" is answered whether or not a task is running
ReceivePing ==
  /\ \E data \in Messages : Branch(data) = "ping" /\ Receive(data)
  /\ sent' = Send(sent, [text |-> "pong"])
  /\ UNCHANGED <<handler, running_task, tasks, manager_calls, offconn>>

\* line 312: send_text raises (the client is gone)
PongFails ==
  /\ \E data \in Messages : Branch(data) = "ping" /\ Receive(data)
  /\ Break
  /\ UNCHANGED <<sent, manager_calls, offconn>>

\* lines 313-323: the request is dropped
ReceiveWhileBusy ==
  /\ \E data \in Messages : Branch(data) = "busy" /\ Receive(data)
  /\ sent' = SendNotAwaited(sent, BusyNotice)
  /\ UNCHANGED <<handler, running_task, tasks, manager_calls, offconn>>

\* lines 324-327
ReceiveStart ==
  /\ \E data \in Messages : Branch(data) = "start" /\ Receive(data)
  /\ RunLongRunningTask("start")
  /\ UNCHANGED <<handler, sent, manager_calls, offconn>>

\* lines 328-329
ReceiveHumanFeedback ==
  /\ \E data \in Messages : Branch(data) = "human_feedback" /\ Receive(data)
  /\ RunLongRunningTask("human_feedback")
  /\ UNCHANGED <<handler, sent, manager_calls, offconn>>

\* lines 330-333
ReceiveChat ==
  /\ \E data \in Messages : Branch(data) = "chat" /\ Receive(data)
  /\ RunLongRunningTask("chat")
  /\ UNCHANGED <<handler, sent, manager_calls, offconn>>

\* lines 334-335
ReceiveUnknown ==
  /\ \E data \in Messages : Branch(data) = "unknown" /\ Receive(data)
  /\ UNCHANGED <<handler, running_task, tasks, sent, manager_calls, offconn>>

\* line 309: receive_text raises (disconnect or transport error)
ReceiveFails ==
  /\ handler = "receive"
  /\ Break
  /\ UNCHANGED <<sent, handled, manager_calls, offconn>>

\* safe_run, lines 289-290: the awaitable returns
TaskReturns ==
  \E i \in 1..Len(tasks) :
    /\ tasks[i].state = "running"
    /\ tasks' = [tasks EXCEPT ![i].state = "done"]
    /\ UNCHANGED <<handler, running_task, sent, handled, manager_calls, offconn>>

\* a task failure that also ends the receive loop
TaskRaises_EndsLoop ==
  \E i \in 1..Len(tasks) :
    /\ tasks[i].state = "running"
    /\ sent' = Send(sent, ErrorNotice)
    /\ tasks' = [tasks EXCEPT ![i].state = "done", ![i].raised = TRUE]
    /\ handler' = "returned"
    /\ UNCHANGED <<running_task, handled, manager_calls, offconn>>

\* safe_run, lines 294-302: the awaitable raises, the error is reported
TaskRaises ==
  \E i \in 1..Len(tasks) :
    /\ tasks[i].state = "running"
    /\ sent' = Send(sent, ErrorNotice)
    /\ tasks' = [tasks EXCEPT ![i].state = "done", ![i].raised = TRUE]
    /\ UNCHANGED <<handler, running_task, handled, manager_calls, offconn>>

\* safe_run, lines 291-293: CancelledError is logged and re-raised
TaskCancelled ==
  \E i \in 1..Len(tasks) :
    /\ tasks[i].state = "cancelling"
    /\ tasks' = [tasks EXCEPT ![i].state = "cancelled"]
    /\ UNCHANGED <<handler, running_task, sent, handled, manager_calls, offconn>>

\* lines 336-338: except Exception catches whatever ended the loop,
\* WebSocketDisconnect included, so the handler returns normally
HandlerOutcome == "return"

\* websocket_endpoint, server.py lines 428-431: the handler is over;
\* manager.disconnect is called in the except WebSocketDisconnect clause only
EndpointReturns ==
  /\ handler = "returned"
  /\ handler' = "closed"
  /\ manager_calls' = IF HandlerOutcome = "WebSocketDisconnect"
                        THEN Append(manager_calls, "disconnect")
                        ELSE manager_calls
  /\ UNCHANGED <<running_task, tasks, sent, handled, offconn>>

ConnNext ==
  \/ ReceivePing
  \/ PongFails
  \/ ReceiveWhileBusy
  \/ ReceiveStart
  \/ ReceiveHumanFeedback
  \/ ReceiveChat
  \/ ReceiveUnknown
  \/ ReceiveFails
  \/ TaskReturns
  \/ TaskRaises
  \/ TaskCancelled
  \/ EndpointReturns

\* a connection on which no report object is being driven by the model
ConnOnly ==
  /\ Init
  /\ self_subtopics = <<>> /\ attrs = {} /\ engine_copies = FALSE

ConnSpec == ConnOnly /\ [][ConnNext]_conn

\* tasks that are neither finished nor cancelled
TasksInFlight ==
  {i \in 1..Len(tasks) : tasks[i].state \in {"running", "cancelling"}}

Commands == {"start", "human_feedback", "chat"}

\* C29: on one connection at most one long-running task is in flight, and it
\* is running_task; a message other than "ping" received while a task is in
\* flight creates no task and leaves running_task alone; a start,
\* human_feedback or chat message received when none is in flight creates
\* the task that becomes running_task.
C29_OneTaskPerConnection ==
  [][ /\ Cardinality(TasksInFlight') <= 1
      /\ TasksInFlight' \subseteq {running_task'}
      /\ Len(handled') > Len(handled) =>
           LET data == handled'[Len(handled')].data IN
             /\ (data # Ping /\ TasksInFlight # {}) =>
                  (tasks' = tasks /\ running_task' = running_task)
             /\ (TasksInFlight = {} /\ data[1] \in Commands) =>
                  /\ Len(tasks') = Len(tasks) + 1
                  /\ running_task' = Len(tasks')
                  /\ tasks'[Len(tasks')].state = "running" ]_conn

\* C29 witness: a request was dropped while the first task ran, and once
\* that task was done a second command was accepted.
C29_Witness ==
  /\ Len(tasks) = 2 /\ tasks[1].state = "done" /\ tasks[2].state = "running"
  /\ Len(handled) = 3 /\ handled[2].branch = "busy"
  /\ handled[3].branch \in Commands

\* C30: every request dropped because a task is running is answered by a
\* frame whose output is 'Task already running. Please wait.'.
C30_BusyNoticeSent ==
  \A i \in 1..Len(handled) :
    handled[i].branch = "busy" =>
      \E k \in 1..Len(sent) :
        /\ "output" \in DOMAIN sent[k]
        /\ sent[k].output = "Task already running. Please wait."

\* ================================================= two runs interleaved
\* Two DetailedReport objects, each on the planned path with the one
\* subtopic its planner listed; a step is the code of one run between two of
\* its awaits.  The root sessions are the two GPTResearcher objects built at
\* line 77, each with its visited-URL set.

\* a ledger kept in one place for every object (class attributes)
Self_Shared(r) == 1

\* self in a method of run r: every ledger access is self.<attribute>
\* (lines 119-120, 157, 165, 178, 181, 183-190), an attribute of the object
Self(r) == r

\* the subtopic the planner listed for run r
TaskOf(r) == IF r = 1 THEN "A" ELSE "B"

Answer(call, context, found, body) ==
  [call |-> call, context |-> context, found |-> found, body |-> body]

\* _initial_research, lines 117-120
InitialResearchOf(r) ==
  /\ stage[r] = "initial_research"
  /\ \E ctx \in CtxLists, found \in Found :
       /\ sets' = [sets EXCEPT ![Root(r)] = @ \cup found]
       /\ ledgers' = [ledgers EXCEPT
                        ![Self(r)].global_context = ctx,
                        ![Self(r)].global_urls = Root(r),
                        ![Self(r)].attrs = @ \cup {"global_context",
                                                   "global_urls"}]
       /\ answers' = [answers EXCEPT ![r] =
                        Append(@, Answer("conduct_research", ctx, found, <<>>))]
  /\ stage' = [stage EXCEPT ![r] = "session"]
  /\ UNCHANGED <<sessions, reports, offpair>>

\* lines 147-165: the subtopic session is created and seeded
CreateSessionOf(r) ==
  /\ stage[r] = "session"
  /\ LET mine == ledgers[Self(r)]
     IN /\ \E seeded \in ListOfSet(mine.global_context) :
             sessions' = [sessions EXCEPT ![r] =
                            [context |-> seeded,
                             visited_urls |-> IF engine_copies THEN Sess(r)
                                              ELSE mine.global_urls]]
        /\ sets' = IF engine_copies
                     THEN [sets EXCEPT ![Sess(r)] = sets[mine.global_urls]]
                     ELSE sets
  /\ stage' = [stage EXCEPT ![r] = "research"]
  /\ UNCHANGED <<ledgers, answers, reports, offpair>>

\* line 166: the session's research pass
SubtopicResearchOf(r) ==
  /\ stage[r] = "research"
  /\ \E ctx \in CtxLists, found \in Found :
       /\ sessions' = [sessions EXCEPT ![r].context = ctx]
       /\ sets' = [sets EXCEPT ![sessions[r].visited_urls] = @ \cup found]
       /\ answers' = [answers EXCEPT ![r] =
                        Append(@, Answer("conduct_research", ctx, found, <<>>))]
  /\ stage' = [stage EXCEPT ![r] = "lookup"]
  /\ UNCHANGED <<ledgers, reports, offpair>>

\* lines 177-181: the two ledger lists are read as arguments
SimilarWrittenContentsOf(r) ==
  /\ stage[r] = "lookup"
  /\ stage' = [stage EXCEPT ![r] =
                 IF {"global_written_sections", "existing_headers"}
                      \subseteq ledgers[Self(r)].attrs
                   THEN "write" ELSE "raised"]
  /\ UNCHANGED <<ledgers, sets, sessions, answers, reports, offpair>>

\* lines 181-190: write_report returns and the ledger is updated
MergeOf(r) ==
  /\ stage[r] = "write"
  /\ \E text \in Bodies(TaskOf(r)) :
       LET mine == ledgers[Self(r)]
       IN /\ \E merged_context \in
                  MergeContext(mine.global_context, sessions[r].context) :
               ledgers' = [ledgers EXCEPT
                 ![Self(r)].global_written_sections = MergeSections(@, text),
                 ![Self(r)].global_context = merged_context,
                 ![Self(r)].existing_headers =
                    MergeHeaders(@, TaskOf(r), text)]
          /\ sets' = [sets EXCEPT ![mine.global_urls] =
                        MergeUrls(@, sets[sessions[r].visited_urls])]
          /\ answers' = [answers EXCEPT ![r] =
                           Append(@, Answer("write_report", <<>>, {}, text))]
  /\ stage' = [stage EXCEPT ![r] = "assemble"]
  /\ UNCHANGED <<sessions, reports, offpair>>

\* lines 113-115 and 194-200
AssembleOf(r) ==
  /\ stage[r] = "assemble"
  /\ LET wrote == answers[r][Len(answers[r])].body
     IN reports' = [reports EXCEPT ![r] =
                      ConstructDetailedReport(write_introduction,
                                              AppendBody(<<>>, wrote),
                                              sets[Root(r)])]
  /\ stage' = [stage EXCEPT ![r] = "done"]
  /\ UNCHANGED <<ledgers, sets, sessions, answers, offpair>>

PairNext ==
  \/ \E r \in Runs : InitialResearchOf(r)
  \/ \E r \in Runs : CreateSessionOf(r)
  \/ \E r \in Runs : SubtopicResearchOf(r)
  \/ \E r \in Runs : SimilarWrittenContentsOf(r)
  \/ \E r \in Runs : MergeOf(r)
  \/ \E r \in Runs : AssembleOf(r)

PairOnly == Init /\ self_subtopics = <<>>

PairSpec == PairOnly /\ [][PairNext]_pair

\* the ledger as run r observes it: sharedContext, visitedUrls,
\* writtenHeaders, writtenSections
Observed(r) ==
  LET mine == ledgers[Self(r)]
  IN <<mine.global_context, sets[mine.global_urls], mine.existing_headers,
       mine.global_written_sections>>

\* every URL the engine found for run r
AllFound(r) == UNION {answers[r][k].found : k \in 1..Len(answers[r])}

\* the report that run r's own engine answers determine
OwnReport(r) ==
  LET wrote == answers[r][Len(answers[r])].body
  IN <<"INTRO">> \o NL2
       \o <<"TOC[">> \o (IF wrote # <<>> THEN NL3 \o wrote ELSE <<>>) \o <<"]">>
       \o NL2 \o (IF wrote # <<>> THEN NL3 \o wrote ELSE <<>>) \o NL2
       \o <<"CONCLUSION[">> \o (IF wrote # <<>> THEN NL3 \o wrote ELSE <<>>)
       \o <<"]", "REFS[">>
       \o SelectSeq(UrlList, LAMBDA u : u \in AllFound(r)) \o <<"]">>

C31_NoTaskOutlivesHandler ==
  [][ /\ handler' \in {"returned", "closed"} =>
           \A i \in 1..Len(tasks') : tasks'[i].state # "running"
      /\ (handler = "receive" /\ handler' = "returned") =>
           \A i \in TasksInFlight : tasks'[i].state = "cancelling" ]_conn

\* C31 witness: the loop ended while a task was running and the task ended
\* cancelled.
C31_Witness ==
  /\ handler \in {"returned", "closed"}
  /\ Len(tasks) = 1 /\ tasks[1].state = "cancelled"

\* the error frames among the frames sent
ErrorFrames(frames) ==
  SelectSeq(frames, LAMBDA f : "content" \in DOMAIN f /\ f.content = "error")

\* C32: a task that fails with an exception other than a cancellation sends
\* exactly one logs/error frame and leaves the handler receiving; a start
\* command received after that creates a task; a task that ends cancelled
\* sends nothing.
C32_TaskFailureIsReported ==
  [][ /\ \A i \in 1..Len(tasks) :
           /\ (tasks[i].state = "running" /\ tasks'[i].state = "done"
                 /\ tasks'[i].raised) =>
                /\ sent' = Append(sent, [type |-> "logs", content |-> "error",
                                         output |-> "Error"])
                /\ handler' = handler /\ handler = "receive"
           /\ (tasks[i].state = "cancelling" /\ tasks'[i].state = "cancelled")
                => sent' = sent
      /\ (/\ running_task # 0 /\ tasks[running_task].raised
          /\ Len(handled') > Len(handled)
          /\ handled'[Len(handled')].data[1] = "start") =>
           /\ Len(tasks') = Len(tasks) + 1
           /\ tasks'[Len(tasks')].command = "start"
      /\ Len(ErrorFrames(sent')) =
           Cardinality({i \in 1..Len(tasks') : tasks'[i].raised}) ]_conn

\* C32 witness: the first task failed, one error frame was sent, and a
\* later start command was accepted.
C32_Witness ==
  /\ Len(tasks) = 2 /\ tasks[1].raised /\ tasks[2].command = "start"
  /\ tasks[2].state = "running" /\ handler = "receive"
  /\ Len(ErrorFrames(sent)) = 1

\* C33: when websocket_endpoint is over, manager.disconnect has been called
\* for the websocket that was passed to manager.connect.
C33_DisconnectCalled ==
  handler = "closed" =>
    \E k \in 1..Len(manager_calls) : manager_calls[k] = "disconnect"

\* ===================================================== one start command
\* handle_start_command, server_utils.py lines 130-200, as the task that
\* safe_run awaits.  A position is the await the coroutine is suspended in;
\* effects lists the operations it has performed, and whether each returned.

\* a test that only looks at the task
MissingParameters_TaskOnly(c) == c.task \in {NoneValue, ""}

\* line 158: not task or not report_type
MissingParameters(c) ==
  c.task \in {NoneValue, ""} \/ c.report_type \in {NoneValue, ""}

Did(op) == [op |-> op, ok |-> TRUE]
Failed(op) == [op |-> op, ok |-> FALSE]

\* the operation awaited at each position
AwaitedAt ==
  [reject |-> "send logs/error", log_query |-> "logs_handler.send_json",
   streaming |-> "manager.start_streaming", files |-> "generate_report_files",
   paths |-> "send_file_paths"]

\* lines 131-168: parse, extract, test; on the accepting side the log
\* handler is built, which creates the log file (lines 24-43)
ParseStartCommand ==
  /\ start_pc = "created"
  /\ \E c \in StartCommands :
       /\ json_data' = c
       /\ IF ~c.well_formed
            THEN start_pc' = "raised" /\ effects' = effects
            ELSE IF MissingParameters(c)
              THEN start_pc' = "reject" /\ effects' = effects
              ELSE /\ start_pc' = "log_query"
                   /\ effects' = effects \o <<Did("CustomLogsHandler"),
                                              Did("create log file")>>
  /\ UNCHANGED offstart

\* lines 160-165: one logs/error frame, then return
ReportMissingParameters ==
  /\ start_pc = "reject"
  /\ effects' = Append(effects, Did(AwaitedAt[start_pc]))
  /\ start_pc' = "returned"
  /\ UNCHANGED <<json_data, offstart>>

\* lines 170-176
LogQuery ==
  /\ start_pc = "log_query"
  /\ effects' = Append(effects, Did(AwaitedAt[start_pc]))
  /\ start_pc' = "streaming"
  /\ UNCHANGED <<json_data, offstart>>

\* lines 178-196
StartStreaming ==
  /\ start_pc = "streaming"
  /\ effects' = Append(effects, Did(AwaitedAt[start_pc]))
  /\ start_pc' = "files"
  /\ UNCHANGED <<json_data, offstart>>

\* lines 197-199
GenerateReportFiles ==
  /\ start_pc = "files"
  /\ effects' = Append(effects, Did(AwaitedAt[start_pc]))
  /\ start_pc' = "paths"
  /\ UNCHANGED <<json_data, offstart>>

\* line 200
SendFilePaths ==
  /\ start_pc = "paths"
  /\ effects' = Append(effects, Did(AwaitedAt[start_pc]))
  /\ start_pc' = "returned"
  /\ UNCHANGED <<json_data, offstart>>

\* the awaited operation raises; nothing in lines 130-200 catches it
StartRaises ==
  /\ start_pc \in DOMAIN AwaitedAt
  /\ effects' = Append(effects, Failed(AwaitedAt[start_pc]))
  /\ start_pc' = "raised"
  /\ UNCHANGED <<json_data, offstart>>

\* the task is cancelled while suspended in the awaited operation
StartCancelled ==
  /\ start_pc \in DOMAIN AwaitedAt
  /\ effects' = Append(effects, Failed(AwaitedAt[start_pc]))
  /\ start_pc' = "cancelled"
  /\ UNCHANGED <<json_data, offstart>>

StartNext ==
  \/ ParseStartCommand
  \/ ReportMissingParameters
  \/ LogQuery
  \/ StartStreaming
  \/ GenerateReportFiles
  \/ SendFilePaths
  \/ StartRaises
  \/ StartCancelled

StartOnly ==
  /\ Init
  /\ self_subtopics = <<>> /\ attrs = {} /\ engine_copies = FALSE

StartSpec == StartOnly /\ [][StartNext]_startv

\* C34: a start command whose task or report_type is absent or empty
\* performs nothing but the sending of one logs/error frame: no log handler,
\* no log file, no start_streaming, no report files, no file paths; when it
\* returns, exactly that one frame was sent.
C34_MissingParametersOnlyReport ==
  (/\ start_pc # "created" /\ json_data.well_formed
   /\ (json_data.task \in {"None", ""} \/ json_data.report_type \in {"None", ""}))
    => /\ Len(effects) <= 1
       /\ \A k \in 1..Len(effects) : effects[k].op = "send logs/error"
       /\ start_pc = "returned" =>
            effects = <<[op |-> "send logs/error", ok |-> TRUE]>>

\* C34 witness: a command with a task but an empty report_type has returned
\* after its error frame.
C34_Witness ==
  /\ start_pc = "returned"
  /\ json_data.task = "topic" /\ json_data.report_type = ""
  /\ effects = <<[op |-> "send logs/error", ok |-> TRUE]>>

\* ==================================================== temporary folders
\* A folder name is the sequence of the parts that name.split('_') yields.
MaxClock == 13
MaxFolders == 2
MaxRuns == 2

TwoHours == 2

\* str(n) of the integers the model meets
DecimalText == <<"0", "1", "2", "3", "4", "5", "6", "7", "8", "9", "10",
                 "11", "12", "13", "14", "15", "16">>
ToStr(n) == DecimalText[n + 1]

\* int(text) succeeds / raises ValueError
IsNumeric(text) == \E n \in 0..(Len(DecimalText) - 1) : ToStr(n) = text
IntOf(text) == CHOOSE n \in 0..(Len(DecimalText) - 1) : ToStr(n) = text

\* user_id, split at '_': none, a name, a number
UserIds == {<<>>, <<"alice">>, <<"7">>}

\* str(uuid.uuid4()): no '_' in it, never the same twice
RequestIds == <<"uuid1", "uuid2", "uuid3">>

\* create_temp_doc_path, lines 69-75: docs_{user_id}_{timestamp}_{request_id}
\* or docs_{timestamp}_{request_id}
FolderName(user_id, timestamp, request_id) ==
  <<"docs">> \o user_id \o <<ToStr(timestamp), request_id>>

\* no temp_doc_path / doc_path given
NoPath == <<>>

\* create_temp_doc_path (lines 58-85), called by create_temp_folder_endpoint
\* (line 194) or by generate_report_with_files (line 350)
CreateTempFolder ==
  /\ Cardinality(created) < MaxFolders
  /\ \E user_id \in UserIds, via \in {"endpoint", "upload"} :
       LET name == FolderName(user_id, now,
                              RequestIds[Cardinality(created) + 1])
       IN /\ temp_base' = temp_base \cup {name}
          /\ created' = created \cup {[name |-> name, at |-> now, via |-> via]}
  /\ UNCHANGED <<now, research_runs, timers, swept, last_pass, offtemp>>

\* generate_report_with_files, lines 393-396: saving the upload fails before
\* any run was started
UploadFails ==
  /\ \E c \in created :
       /\ c.via = "upload" /\ c.name \in temp_base
       /\ \A i \in 1..Len(research_runs) : research_runs[i].doc_path # c.name
       /\ temp_base' = temp_base \ {c.name}
  /\ UNCHANGED <<now, created, research_runs, timers, swept, last_pass,
                 offtemp>>

\* write_report_with_files is entered (lines 217-221), awaited by the
\* endpoint (lines 315, 390) or run as a background task (lines 303, 378)
StartRun ==
  /\ Len(research_runs) < MaxRuns
  /\ \E doc_path \in temp_base \cup {NoPath}, background \in BOOLEAN :
       research_runs' = Append(research_runs,
                               [doc_path |-> doc_path, state |-> "running",
                                background |-> background])
  /\ UNCHANGED <<now, temp_base, created, timers, swept, last_pass, offtemp>>

\* lines 269-273: the finally clause
ScheduleCleanup(doc_path) ==
  IF doc_path # NoPath THEN timers \cup {doc_path} ELSE timers

\* lines 267-273: the run returns its response
RunReturns ==
  /\ \E i \in 1..Len(research_runs) :
       /\ research_runs[i].state = "running"
       /\ research_runs' = [research_runs EXCEPT ![i].state = "ended"]
       /\ timers' = ScheduleCleanup(research_runs[i].doc_path)
  /\ UNCHANGED <<now, temp_base, created, swept, last_pass, offtemp>>

\* lines 269-273, then the awaiting endpoint's except clause (lines 318-323,
\* 393-398); a background task has no endpoint waiting for it
RunRaises ==
  /\ \E i \in 1..Len(research_runs) :
       LET run == research_runs[i]
       IN /\ run.state = "running"
          /\ research_runs' = [research_runs EXCEPT ![i].state = "ended"]
          /\ timers' = ScheduleCleanup(run.doc_path)
          /\ temp_base' = IF run.background THEN temp_base
                          ELSE temp_base \ {run.doc_path}
  /\ UNCHANGED <<now, created, swept, last_pass, offtemp>>

\* cleanup_temp_doc_path (lines 87-104) run by the timer of line 273
TimerFires ==
  /\ \E doc_path \in timers :
       /\ timers' = timers \ {doc_path}
       /\ temp_base' = temp_base \ {doc_path}
  /\ UNCHANGED <<now, created, research_runs, swept, last_pass, offtemp>>

\* cleanup_temp_folders, lines 397-402: at least three parts, the second an
\* integer below the cutoff; ValueError leaves the folder (lines 404-405)
Sweepable(name, cutoff_time) ==
  /\ Len(name) >= 3
  /\ IsNumeric(name[2])
  /\ IntOf(name[2]) < cutoff_time

\* cleanup_temp_folders, one pass of the loop (lines 382-405)
CleanupPass ==
  /\ LET cutoff_time == now - TwoHours
         old == {name \in temp_base : Sweepable(name, cutoff_time)}
     IN /\ temp_base' = temp_base \ old
        /\ swept' = swept \cup {[name |-> name, at |-> now] : name \in old}
  /\ last_pass' = now
  /\ UNCHANGED <<now, created, research_runs, timers, offtemp>>

\* an hour passes: the five-minute timers have fired and the service, which
\* sleeps 30 minutes between passes (line 410), has made a pass
Tick ==
  /\ now < MaxClock
  /\ timers = {}
  /\ last_pass = now
  /\ now' = now + 1
  /\ UNCHANGED <<temp_base, created, research_runs, timers, swept, last_pass,
                 offtemp>>

TempNext ==
  \/ CreateTempFolder
  \/ UploadFails
  \/ StartRun
  \/ RunReturns
  \/ RunRaises
  \/ TimerFires
  \/ CleanupPass
  \/ Tick

TempOnly ==
  /\ Init
  /\ self_subtopics = <<>> /\ attrs = {} /\ engine_copies = FALSE

TempSpec == TempOnly /\ [][TempNext]_temp

\* C35: after a pass of the cleanup service no folder made by
\* create_temp_doc_path, with or without a user_id, that was more than two
\* hours old at that pass is left.
C35_OldFoldersAreSwept ==
  \A c \in created :
    (last_pass > 0 /\ c.at < last_pass - 2) => c.name \notin temp_base

\* C36: the cleanup service removes no folder made by create_temp_doc_path
\* less than two hours before the pass, whatever its user_id.
C36_FreshFoldersAreKept ==
  \A x \in swept : \A c \in created :
    c.name = x.name => x.at - c.at >= 2

\* C37: the folder of a run that has not ended exists: no timer, endpoint
\* clean-up or service pass removes it while the run reads it, and a timer
\* is pending only for the folder of a run that has ended.
C37_NoCleanupDuringRun ==
  /\ \A i \in 1..Len(research_runs) :
       (research_runs[i].state = "running"
          /\ research_runs[i].doc_path # <<>>)
         => research_runs[i].doc_path \in temp_base
  /\ \A doc_path \in timers :
       \E i \in 1..Len(research_runs) :
         /\ research_runs[i].doc_path = doc_path
         /\ research_runs[i].state = "ended"

====
